---- MODULE Spec2Model ----
(***************************************************************************)
(* Album Collector bot: the per-user album state (context.py) and the      *)
(* handlers that mutate it (handlers.py).                                  *)
(*                                                                         *)
(* A handler is a pure operator from the user data, the update and the     *)
(* outcomes of its outbound transport calls to the new user data, the      *)
(* ordered list of outbound calls it made and whether a TelegramError      *)
(* escaped it.  An action receives one update and runs one handler to      *)
(* completion.  Spec routes the updates of a chat through the registered   *)
(* handler list; SpecUnit calls each handler directly, once, on any update *)
(* that passes its assertions; SpecSessions routes the updates of two      *)
(* users, each with a UserData of its own; SpecSteps runs cmd_collect from *)
(* await to await with the other handlers of the session in between.       *)
(***************************************************************************)
EXTENDS Integers, Sequences, FiniteSets, TLC

\* ------------------------------------------------------------------ bounds
\* A run spends one unit per new message (its fresh id), per echo (its fresh
\* id), per edited message and per button press; commands are free.
MaxNew == 3       \* units of a run that starts from a small album
FullNew == 2      \* units of a run that starts from an over-full album
UnitNew == 2      \* units of a run of SpecUnit
UnitLen == 3      \* largest album a run of SpecUnit starts from
SessNew == 2      \* units of a run of SpecSessions, shared by the sessions
StepsNew == 2     \* units of a run of SpecSteps
Captions == {"c1"}
Texts == {"t1", "t2"}

\* --------------------------------------------------------------- constants
MIN_MEDIA_LENGTH == 2
MAX_MEDIA_LENGTH == 10
QUERY_DELETE == "delete"
None == "None"

VARIABLES
    media_messages,   \* UserData.media_messages: sequence of MediaItem
    caption_message,  \* UserData.caption_message: <<>> or <<CaptionItem>>
    userMsgs,         \* <<id, class>> of the user's messages present in the chat
    botMsgs,          \* ids of the echoed messages present in the chat
    nextId,           \* next message id the transport assigns
    budget,           \* units left in this run
    handler,          \* the handler that ran last
    update,           \* the update it handled
    calls,            \* its outbound transport calls, in order
    raised,           \* whether a TelegramError escaped it
    pre,              \* the user data it started from
    ingested,         \* items recorded by add_media since the last clear
    removed,          \* ids removed by the delete button since the last clear
    edited,           \* an in-place edit happened since the last clear
    retryOf,          \* grouped payload of the directly preceding failed collect
    store,            \* SpecSessions: session key -> its user data and chat
    session,          \* SpecSessions: the session of the last update
    collect           \* SpecSteps: where the running cmd_collect is suspended

vars == <<media_messages, caption_message, userMsgs, botMsgs, nextId, budget,
          handler, update, calls, raised, pre, ingested, removed, edited,
          retryOf, store, session, collect>>

\* ------------------------------------------------------------- data model
InputMedia(type, media, caption) ==
    [type |-> type, media |-> media, caption |-> caption]

MediaItem(item, message_id) == [item |-> item, message_id |-> message_id]

CaptionItem(caption, message_id) ==
    [caption |-> caption, message_id |-> message_id]

UserData(media, caption) ==
    [media_messages |-> media, caption_message |-> caption]

UserData_clear(ud) == UserData(<<>>, <<>>)

\* An outbound transport call and its outcome.
Call(op, ok, ids, media) == [op |-> op, ok |-> ok, ids |-> ids, media |-> media]

Result(ud, cs, exc) == [ud |-> ud, calls |-> cs, raised |-> exc]

\* An inbound update.
Update(utype, kind, message_id, media, caption, text) ==
    [utype |-> utype, kind |-> kind, message_id |-> message_id,
     media |-> media, caption |-> caption, text |-> text]

\* ---------------------------------------------------------------- helpers
MessageIds(ms) == [i \in 1..Len(ms) |-> ms[i].message_id]

\* Mutant of Items: the last item is left out.
Items_DropLast(ms) == [i \in 1..(Len(ms) - 1) |-> ms[i].item]

Items(ms) == [i \in 1..Len(ms) |-> ms[i].item]

SeqSet(s) == {s[i] : i \in 1..Len(s)}

RemoveAt(s, k) == [i \in 1..(Len(s) - 1) |-> IF i < k THEN s[i] ELSE s[i + 1]]

\* list.remove(x): drops the first element equal to x.
ListRemove(s, x) ==
    LET hits == {i \in 1..Len(s) : s[i] = x}
    IN  IF hits = {} THEN s
        ELSE RemoveAt(s, CHOOSE i \in hits : \A j \in hits : i <= j)

\* Mutant of ListAppend: the item goes to the front.
ListAppend_Front(s, x) == <<x>> \o s

ListAppend(s, x) == Append(s, x)

\* ------------------------------------------------------------ handlers.py
\* _get_message_media: <<>> stands for None.
_get_message_media(message) ==
    IF message.kind = "photo"
    THEN <<InputMedia("photo", message.media, message.caption)>>
    ELSE IF message.kind = "video"
    THEN <<InputMedia("video", message.media, message.caption)>>
    ELSE <<>>

\* Mutant of cmd_start: the album is cleared only after the greeting went out.
cmd_start_ClearAfter(ud, upd, o) ==
    Result(IF o[1] THEN UserData(<<>>, <<>>) ELSE ud,
           <<Call("reply_text", o[1], <<>>, <<>>)>>,
           FALSE)

\* cmd_start: clear, then greet inside try/except.
cmd_start(ud, upd, o) ==
    Result(UserData(<<>>, <<>>),
           <<Call("reply_text", o[1], <<>>, <<>>)>>,
           FALSE)

\* Mutant of add_media: a full album takes no further item.
add_media_Capped(ud, upd, new_message_id, o) ==
    LET item == _get_message_media(upd)
    IN  IF item = <<>>
        THEN Result(ud, <<Call("reply_text", o[1], <<>>, <<>>)>>, FALSE)
        ELSE IF ~o[1]
        THEN Result(ud, <<Call("copy", FALSE, <<>>, <<>>)>>, FALSE)
        ELSE Result(
                UserData(IF Len(ud.media_messages) >= MAX_MEDIA_LENGTH
                         THEN ud.media_messages
                         ELSE Append(ud.media_messages,
                                     MediaItem(item[1], new_message_id)),
                         ud.caption_message),
                <<Call("copy", TRUE, <<new_message_id>>, <<>>),
                  Call("delete", o[2], <<upd.message_id>>, <<>>)>>,
                FALSE)

\* Mutant of add_media: the item is recorded under the inbound message's id.
add_media_InboundId(ud, upd, new_message_id, o) ==
    LET item == _get_message_media(upd)
    IN  IF item = <<>>
        THEN Result(ud, <<Call("reply_text", o[1], <<>>, <<>>)>>, FALSE)
        ELSE IF ~o[1]
        THEN Result(ud, <<Call("copy", FALSE, <<>>, <<>>)>>, FALSE)
        ELSE Result(
                UserData(Append(ud.media_messages,
                                MediaItem(item[1], upd.message_id)),
                         ud.caption_message),
                <<Call("copy", TRUE, <<new_message_id>>, <<>>),
                  Call("delete", o[2], <<upd.message_id>>, <<>>)>>,
                FALSE)

\* add_media: new_message_id is the id the transport gives the copy.
add_media(ud, upd, new_message_id, o) ==
    LET item == _get_message_media(upd)
    IN  IF item = <<>>
        THEN Result(ud, <<Call("reply_text", o[1], <<>>, <<>>)>>, FALSE)
        ELSE IF ~o[1]
        THEN Result(ud, <<Call("copy", FALSE, <<>>, <<>>)>>, FALSE)
        ELSE Result(
                UserData(ListAppend(ud.media_messages,
                                    MediaItem(item[1], new_message_id)),
                         ud.caption_message),
                <<Call("copy", TRUE, <<new_message_id>>, <<>>),
                  Call("delete", o[2], <<upd.message_id>>, <<>>)>>,
                FALSE)

\* The loop of delete_media: the first item with the message id is removed.
RemoveByMessageId(ms, message_id) ==
    LET hits == {i \in 1..Len(ms) : ms[i].message_id = message_id}
    IN  IF hits = {} THEN ms
        ELSE ListRemove(ms, ms[CHOOSE i \in hits : \A j \in hits : i <= j])

\* Mutant of delete_media: the echoed message is deleted, its item is kept.
delete_media_KeepItem(ud, upd, o) ==
    IF ~o[1]
    THEN Result(ud, <<Call("answer", FALSE, <<>>, <<>>)>>, TRUE)
    ELSE Result(ud,
                <<Call("answer", TRUE, <<>>, <<>>),
                  Call("delete", o[2], <<upd.message_id>>, <<>>)>>,
                FALSE)

\* delete_media: the answer is awaited outside any try block.
delete_media(ud, upd, o) ==
    IF ~o[1]
    THEN Result(ud, <<Call("answer", FALSE, <<>>, <<>>)>>, TRUE)
    ELSE Result(
            UserData(RemoveByMessageId(ud.media_messages, upd.message_id),
                     ud.caption_message),
            <<Call("answer", TRUE, <<>>, <<>>),
              Call("delete", o[2], <<upd.message_id>>, <<>>)>>,
            FALSE)

\* Mutant of add_description: a caption already stored is kept.
add_description_KeepFirst(ud, upd, o) ==
    IF upd.text # None /\ ud.caption_message = <<>>
    THEN Result(UserData(ud.media_messages,
                         <<CaptionItem(upd.text, upd.message_id)>>),
                <<>>, FALSE)
    ELSE Result(ud, <<>>, FALSE)

\* add_description
add_description(ud, upd, o) ==
    IF upd.text # None
    THEN Result(UserData(ud.media_messages,
                         <<CaptionItem(upd.text, upd.message_id)>>),
                <<>>, FALSE)
    ELSE Result(ud, <<>>, FALSE)

\* Mutant of UpdateMedia: the edit is written to the first item.
UpdateMedia_First(ms, message) ==
    [i \in 1..Len(ms) |->
        IF i = 1 /\ message.message_id \in {ms[j].message_id : j \in 1..Len(ms)}
        THEN MediaItem(_get_message_media(message)[1], ms[i].message_id)
        ELSE ms[i]]

\* The media branch of update_message: every item with the id is replaced.
UpdateMedia(ms, message) ==
    [i \in 1..Len(ms) |->
        IF ms[i].message_id = message.message_id
           /\ _get_message_media(message) # <<>>
        THEN MediaItem(_get_message_media(message)[1], ms[i].message_id)
        ELSE ms[i]]

\* The text branch of update_message.
UpdateCaption(cap, message) ==
    IF cap # <<>> /\ message.message_id = cap[1].message_id
    THEN <<CaptionItem(message.text, cap[1].message_id)>>
    ELSE cap

\* update_message
update_message(ud, upd, o) ==
    IF upd.kind \in {"photo", "video"}
    THEN Result(UserData(UpdateMedia(ud.media_messages, upd),
                         ud.caption_message), <<>>, FALSE)
    ELSE IF upd.text # None
    THEN Result(UserData(ud.media_messages,
                         UpdateCaption(ud.caption_message, upd)), <<>>, FALSE)
    ELSE Result(ud, <<>>, FALSE)

\* Mutant of ClearIds: the caption's message is left out of the batch.
ClearIds_NoCaption(ud) == [i \in 1..Len(ud.media_messages) |->
                              ud.media_messages[i].message_id]

\* The message ids _clear_album_data hands to delete_messages.
ClearIds(ud) ==
    MessageIds(ud.media_messages)
        \o (IF ud.caption_message # <<>>
            THEN <<ud.caption_message[1].message_id>> ELSE <<>>)

\* Mutant of _clear_album_data: the album is kept when the batch delete failed.
_clear_album_data_KeepOnFail(ud, chat, ok) ==
    Result(IF ok THEN UserData(<<>>, <<>>) ELSE ud,
           IF chat THEN <<Call("delete_messages", ok,
                               MessageIds(ud.media_messages)
                                 \o [i \in 1..Len(ud.caption_message) |->
                                        ud.caption_message[i].message_id],
                               <<>>)>>
           ELSE <<>>,
           FALSE)

\* _clear_album_data: the batch delete is inside try/except, the clear after.
_clear_album_data(ud, chat, ok) ==
    Result(UserData_clear(ud),
           IF chat THEN <<Call("delete_messages", ok, ClearIds(ud), <<>>)>>
           ELSE <<>>,
           FALSE)

\* Mutant of InBounds: the upper limit is not checked.
InBounds_NoUpper(n) == MIN_MEDIA_LENGTH <= n

\* The size check of cmd_collect.
InBounds(n) == MIN_MEDIA_LENGTH <= n /\ n <= MAX_MEDIA_LENGTH

\* The caption merge of cmd_collect: a new first entry with the stored text.
MergeCaption(media, cap) ==
    IF cap # <<>> /\ Len(media) > 0 /\ media[1].type \in {"photo", "video"}
    THEN [media EXCEPT ![1] =
            InputMedia(media[1].type, media[1].media, cap[1].caption)]
    ELSE media

\* Mutant of cmd_collect: the album is cleared when the grouped send failed too.
cmd_collect_ClearAlways(ud, upd, o) ==
    LET media == Items(ud.media_messages)
        group == MergeCaption(media, ud.caption_message)
    IN  IF ~InBounds(Len(media))
        THEN Result(ud, <<Call("reply_text", o[1], <<>>, <<>>)>>, ~o[1])
        ELSE IF ~o[1]
        THEN Result(UserData(<<>>, <<>>),
                    <<Call("reply_media_group", FALSE, <<>>, group)>>, FALSE)
        ELSE Result(UserData(<<>>, <<>>),
                    <<Call("reply_media_group", TRUE, <<>>, group),
                      Call("delete_messages", o[2],
                           MessageIds(ud.media_messages), <<>>)>>,
                    FALSE)

\* cmd_collect: the validation reply is awaited outside the try block.
cmd_collect(ud, upd, o) ==
    LET media == Items(ud.media_messages)
        group == MergeCaption(media, ud.caption_message)
        clear == _clear_album_data(ud, TRUE, o[2])
    IN  IF ~InBounds(Len(media))
        THEN Result(ud, <<Call("reply_text", o[1], <<>>, <<>>)>>, ~o[1])
        ELSE IF ~o[1]
        THEN Result(ud, <<Call("reply_media_group", FALSE, <<>>, group)>>,
                    FALSE)
        ELSE Result(clear.ud,
                    <<Call("reply_media_group", TRUE, <<>>, group)>>
                        \o clear.calls,
                    FALSE)

\* cmd_reset: the completion reply is awaited outside any try block.
cmd_reset(ud, upd, o) ==
    LET clear == _clear_album_data(ud, TRUE, o[1])
    IN  Result(clear.ud,
               clear.calls \o <<Call("reply_text", o[2], <<>>, <<>>)>>,
               ~o[2])

\* ------------------------------------------------------ the handler list
\* handlers: the registered list, in registration order, each with the
\* update types and message kinds its filter accepts.
Messages == {"message", "edited"}

handlers ==
    << [callback |-> "cmd_start",       utypes |-> Messages,
        kinds |-> {"/start"}],
       [callback |-> "cmd_collect",     utypes |-> Messages,
        kinds |-> {"/collect"}],
       [callback |-> "cmd_reset",       utypes |-> Messages,
        kinds |-> {"/reset"}],
       [callback |-> "add_media",       utypes |-> Messages,
        kinds |-> {"video", "photo"}],
       [callback |-> "add_description", utypes |-> Messages,
        kinds |-> {"text"}],
       [callback |-> "update_message",  utypes |-> {"edited"},
        kinds |-> {"/start", "/collect", "/reset", "video", "photo",
                   "text", "other"}],
       [callback |-> "delete_media",    utypes |-> {"callback"},
        kinds |-> {QUERY_DELETE}] >>

check_update(h, upd) == upd.utype \in h.utypes /\ upd.kind \in h.kinds

\* process_update: the first handler of the list that accepts the update.
Dispatch(upd) ==
    LET hits == {i \in 1..Len(handlers) : check_update(handlers[i], upd)}
    IN  IF hits = {} THEN "none"
        ELSE handlers[CHOOSE i \in hits : \A j \in hits : i <= j].callback

\* ---------------------------------------------------------------- updates
\* Outcomes of the (at most two) outbound calls of a handler that makes k.
Outcomes(k) == {o \in [1..2 -> BOOLEAN] : \A i \in 1..2 : i > k => o[i]}

NCalls(h) ==
    CASE h \in {"cmd_collect", "cmd_reset", "add_media", "delete_media"} -> 2
      [] h = "cmd_start" -> 1
      [] OTHER -> 0

\* The file uploaded with message id, and the file an edit replaces it with.
FileOf(id) == id

EditedFileOf(id) == 0 - id

MediaUpdates(utype, id, file) ==
    {Update(utype, k, id, file, c, None) :
        k \in {"photo", "video"}, c \in Captions \cup {None}}

TextUpdates(utype, id) == {Update(utype, "text", id, 0, None, t) : t \in Texts}

OtherUpdates(utype, id) == {Update(utype, "other", id, 0, None, None)}

NewUpdates ==
    MediaUpdates("message", nextId, FileOf(nextId))
        \cup TextUpdates("message", nextId)
        \cup OtherUpdates("message", nextId)

\* An edit keeps the class of the message it edits.
EditsOf(id, class) ==
    CASE class = "media" -> MediaUpdates("edited", id, EditedFileOf(id))
      [] class = "text"  -> TextUpdates("edited", id)
      [] OTHER           -> OtherUpdates("edited", id)

ClassOf(upd) ==
    IF upd.kind \in {"photo", "video"} THEN "media"
    ELSE IF upd.kind = "text" THEN "text" ELSE "other"

\* A command is a message whose id no handler reads: it is not tracked.
Command(name) == Update("message", name, 0, 0, None, name)

Callback(id) == Update("callback", QUERY_DELETE, id, 0, None, None)

\* ------------------------------------------------------- running a handler
UD == UserData(media_messages, caption_message)

Copied(cs) == UNION {SeqSet(cs[i].ids) : i \in {j \in 1..Len(cs) :
                        cs[j].op = "copy" /\ cs[j].ok}}

Deleted(cs) == UNION {SeqSet(cs[i].ids) : i \in {j \in 1..Len(cs) :
                        cs[j].op \in {"delete", "delete_messages"} /\ cs[j].ok}}

Sent(cs, op) == {i \in 1..Len(cs) : cs[i].op = op}

Clears(h, cs) ==
    \/ h \in {"cmd_start", "cmd_reset"}
    \/ h = "cmd_collect" /\ \E i \in Sent(cs, "reply_media_group") : cs[i].ok

\* One update handled to completion by handler h with result r, on user data
\* ud in a chat holding the user's messages um and the echoes bm; the chat and
\* the id counter follow the transport calls that succeeded.
Core(ud, um, bm, h, upd, r) ==
    LET fresh == IF upd.utype = "message" /\ upd.message_id # 0 THEN 1 ELSE 0
        ids   == fresh + Cardinality(Copied(r.calls))
        used  == ids + (IF upd.utype \in {"edited", "callback"} THEN 1 ELSE 0)
        gone  == Deleted(r.calls)
    IN  /\ used <= budget
        /\ media_messages' = r.ud.media_messages
        /\ caption_message' = r.ud.caption_message
        /\ calls' = r.calls
        /\ raised' = r.raised
        /\ handler' = h
        /\ update' = upd
        /\ pre' = ud
        /\ nextId' = nextId + ids
        /\ budget' = budget - used
        /\ botMsgs' = (bm \cup Copied(r.calls)) \ gone
        /\ userMsgs' =
             {m \in um \cup (IF fresh = 1
                             THEN {<<upd.message_id, ClassOf(upd)>>}
                             ELSE {}) : m[1] \notin gone}

\* What happened to the album since it was last cleared.
Ghosts(h, upd, r) ==
    LET clr == Clears(h, r.calls)
    IN  /\ ingested' =
             IF clr THEN <<>>
             ELSE IF h = "add_media" /\ Copied(r.calls) # {}
             THEN Append(ingested,
                         MediaItem(InputMedia(upd.kind, upd.media, upd.caption),
                                   CHOOSE m \in Copied(r.calls) : TRUE))
             ELSE ingested
        /\ removed' =
             IF clr THEN {}
             ELSE IF h = "delete_media" /\ ~r.raised
             THEN removed \cup {upd.message_id}
             ELSE removed
        /\ edited' =
             IF clr THEN FALSE
             ELSE edited \/ (h = "update_message"
                             /\ r.ud.media_messages # media_messages)
        /\ retryOf' =
             IF h = "cmd_collect" /\ handler = "cmd_collect"
                /\ Sent(calls, "reply_media_group") # {} /\ ~calls[1].ok
             THEN <<calls[1].media>>
             ELSE <<>>

\* One update of the chat's only session handled to completion.
Run(h, upd, r) ==
    /\ Core(UD, userMsgs, botMsgs, h, upd, r)
    /\ Ghosts(h, upd, r)

\* The id the transport gives the copy of an update's message.
CopyId(upd) == IF upd.utype = "message" THEN nextId + 1 ELSE nextId

\* The callback named h called on user data ud.
Invoke(h, ud, upd, o) ==
    CASE h = "cmd_start"       -> cmd_start(ud, upd, o)
      [] h = "cmd_collect"     -> cmd_collect(ud, upd, o)
      [] h = "cmd_reset"       -> cmd_reset(ud, upd, o)
      [] h = "add_media"       -> add_media(ud, upd, CopyId(upd), o)
      [] h = "add_description" -> add_description(ud, upd, o)
      [] h = "update_message"  -> update_message(ud, upd, o)
      [] h = "delete_media"    -> delete_media(ud, upd, o)
      [] OTHER                 -> Result(ud, <<>>, FALSE)

Handle(h, upd, o) ==
    /\ Run(h, upd, Invoke(h, UD, upd, o))
    /\ UNCHANGED <<store, session, collect>>

\* The user data and the chat of one session.
Session(ud, um, bm) == [ud |-> ud, userMsgs |-> um, botMsgs |-> bm]

Sessions == {"A", "B"}

\* No cmd_collect is running.
Idle == [pc |-> "idle", update |-> <<>>, group |-> <<>>, ids |-> <<>>,
         interleaved |-> FALSE]

\* One session, no suspended handler.
Single ==
    /\ store = [s \in Sessions |-> Session(UserData(<<>>, <<>>), {}, {})]
    /\ session = "A"
    /\ collect = Idle

\* The album after n messages were ingested and their originals deleted: a
\* photo without caption, a video with caption "c1", a photo, ...
Preloaded(n) ==
    [i \in 1..n |->
        MediaItem(IF i % 2 = 1
                  THEN InputMedia("photo", FileOf(2 * i - 1), None)
                  ELSE InputMedia("video", FileOf(2 * i - 1), "c1"),
                  2 * i)]

InitWith(n, b) ==
    /\ media_messages = Preloaded(n)
    /\ caption_message = <<>>
    /\ userMsgs = {}
    /\ botMsgs = {2 * i : i \in 1..n}
    /\ nextId = 2 * n + 1
    /\ budget = b
    /\ handler = "none"
    /\ update = Command("none")
    /\ calls = <<>>
    /\ raised = FALSE
    /\ pre = UserData(Preloaded(n), <<>>)
    /\ ingested = Preloaded(n)
    /\ removed = {}
    /\ edited = FALSE
    /\ retryOf = <<>>
    /\ Single

\* --------------------------------- Spec: updates through the handler list
\* Updates a chat can deliver: new messages, commands, edits of the user's
\* messages still in the chat, button presses on echoed messages still there.
Commands == {Command(c) : c \in {"/start", "/collect", "/reset"}}

Edits == UNION {EditsOf(m[1], m[2]) : m \in userMsgs}

Presses == {Callback(id) : id \in botMsgs}

\* process_update on update upd, when handler h is the one chosen.
Routed(h, upd) ==
    /\ Dispatch(upd) = h
    /\ \E o \in Outcomes(NCalls(h)) : Handle(h, upd, o)

CmdStart ==
    \E upd \in Commands : upd.utype = "message" /\ Routed("cmd_start", upd)

CmdCollect ==
    \E upd \in Commands : upd.utype = "message" /\ Routed("cmd_collect", upd)

CmdReset ==
    \E upd \in Commands : upd.utype = "message" /\ Routed("cmd_reset", upd)

AddMedia == \E upd \in NewUpdates \cup Edits : Routed("add_media", upd)

AddDescription ==
    \E upd \in NewUpdates \cup Edits : Routed("add_description", upd)

UpdateMessage == \E upd \in Edits : Routed("update_message", upd)

DeleteMedia == \E upd \in Presses : Routed("delete_media", upd)

Unhandled == \E upd \in NewUpdates : Routed("none", upd)

Init ==
    \/ InitWith(0, MaxNew)
    \/ InitWith(MIN_MEDIA_LENGTH, MaxNew)
    \/ InitWith(MAX_MEDIA_LENGTH + 1, FullNew)

Next ==
    \/ CmdStart
    \/ CmdCollect
    \/ CmdReset
    \/ AddMedia
    \/ AddDescription
    \/ UpdateMessage
    \/ DeleteMedia
    \/ Unhandled

Spec == Init /\ [][Next]_vars

\* ------------------------------------- SpecUnit: each handler on its own
\* One handler called directly, once, with any update that passes its
\* assertions, on an album of up to UnitLen ingested items and a caption.
Allocated == 1..(nextId - 1)

AnyUpdates ==
    NewUpdates
        \cup UNION {EditsOf(id, c) : id \in Allocated,
                                     c \in {"media", "text", "other"}}

Fresh == handler = "none"

UnitStart ==
    \E o \in Outcomes(1) : Fresh /\ Handle("cmd_start", Command("/start"), o)

UnitCollect ==
    \E o \in Outcomes(2) : Fresh /\ Handle("cmd_collect", Command("/collect"), o)

UnitReset ==
    \E o \in Outcomes(2) : Fresh /\ Handle("cmd_reset", Command("/reset"), o)

UnitAddMedia ==
    \E upd \in AnyUpdates, o \in Outcomes(2) :
        Fresh /\ Handle("add_media", upd, o)

UnitAddDescription ==
    \E upd \in AnyUpdates, o \in Outcomes(0) :
        Fresh /\ Handle("add_description", upd, o)

UnitUpdateMessage ==
    \E upd \in AnyUpdates, o \in Outcomes(0) :
        Fresh /\ Handle("update_message", upd, o)

UnitDeleteMedia ==
    \E id \in Allocated, o \in Outcomes(2) :
        Fresh /\ Handle("delete_media", Callback(id), o)

\* The album after n messages were ingested and, with t a text, t was sent.
InitUnitWith(n, t) ==
    /\ media_messages = Preloaded(n)
    /\ caption_message =
         IF t = None THEN <<>> ELSE <<CaptionItem(t, 2 * n + 1)>>
    /\ userMsgs = IF t = None THEN {} ELSE {<<2 * n + 1, "text">>}
    /\ botMsgs = {2 * i : i \in 1..n}
    /\ nextId = IF t = None THEN 2 * n + 1 ELSE 2 * n + 2
    /\ budget = UnitNew
    /\ handler = "none"
    /\ update = Command("none")
    /\ calls = <<>>
    /\ raised = FALSE
    /\ pre = UserData(Preloaded(n),
                      IF t = None THEN <<>> ELSE <<CaptionItem(t, 2 * n + 1)>>)
    /\ ingested = Preloaded(n)
    /\ removed = {}
    /\ edited = FALSE
    /\ retryOf = <<>>
    /\ Single

InitUnit == \E n \in 0..UnitLen, t \in {None, "t1"} : InitUnitWith(n, t)

NextUnit ==
    \/ UnitStart
    \/ UnitCollect
    \/ UnitReset
    \/ UnitAddMedia
    \/ UnitAddDescription
    \/ UnitUpdateMessage
    \/ UnitDeleteMedia

SpecUnit == InitUnit /\ [][NextUnit]_vars

\* ------------------------------ SpecSessions: two users of the same bot
\* The application keeps one UserData per user and hands the handler the one
\* of the update's user; message ids come from one counter of the bot.  The
\* variables of the single session show the session of the last update.

\* Mutant of PutUserData: the sessions share one media list.
PutUserData_SharedList(st, s, rec) ==
    [t \in Sessions |->
        IF t = s THEN rec
        ELSE Session(UserData(rec.ud.media_messages, st[t].ud.caption_message),
                     st[t].userMsgs, st[t].botMsgs)]

\* The store after the handler of session s returned: only the entry of s is
\* written, every UserData has a media list of its own.
PutUserData(st, s, rec) == [st EXCEPT ![s] = rec]

SessionEdits(s) == UNION {EditsOf(m[1], m[2]) : m \in store[s].userMsgs}

SessionPresses(s) == {Callback(id) : id \in store[s].botMsgs}

\* The new messages a user sends here: a photo, a captioned video, a text and
\* a message of another kind.
SessionNew ==
    {Update("message", "photo", nextId, FileOf(nextId), None, None),
     Update("message", "video", nextId, FileOf(nextId), "c1", None),
     Update("message", "text", nextId, 0, None, "t1"),
     Update("message", "other", nextId, 0, None, None)}

\* process_update on update upd of session s, when handler h is the one chosen.
SessionRouted(s, h, upd) ==
    /\ Dispatch(upd) = h
    /\ \E o \in Outcomes(NCalls(h)) :
          LET cur == store[s]
              r   == Invoke(h, cur.ud, upd, o)
          IN  /\ Core(cur.ud, cur.userMsgs, cur.botMsgs, h, upd, r)
              /\ store' = PutUserData(store, s,
                                      Session(r.ud, userMsgs', botMsgs'))
              /\ session' = s
    /\ UNCHANGED <<ingested, removed, edited, retryOf, collect>>

SessionStart ==
    \E s \in Sessions, upd \in Commands :
        upd.utype = "message" /\ SessionRouted(s, "cmd_start", upd)

SessionCollect ==
    \E s \in Sessions, upd \in Commands :
        upd.utype = "message" /\ SessionRouted(s, "cmd_collect", upd)

SessionReset ==
    \E s \in Sessions, upd \in Commands :
        upd.utype = "message" /\ SessionRouted(s, "cmd_reset", upd)

SessionAddMedia ==
    \E s \in Sessions :
        \E upd \in SessionNew \cup SessionEdits(s) :
            SessionRouted(s, "add_media", upd)

SessionAddDescription ==
    \E s \in Sessions :
        \E upd \in SessionNew \cup SessionEdits(s) :
            SessionRouted(s, "add_description", upd)

SessionUpdateMessage ==
    \E s \in Sessions :
        \E upd \in SessionEdits(s) : SessionRouted(s, "update_message", upd)

SessionDeleteMedia ==
    \E s \in Sessions :
        \E upd \in SessionPresses(s) : SessionRouted(s, "delete_media", upd)

SessionUnhandled ==
    \E s \in Sessions :
        \E upd \in SessionNew : SessionRouted(s, "none", upd)

FirstPhoto == Update("message", "photo", 1, FileOf(1), None, None)

\* Session A has sent its first photo: add_media echoed it as message 2 and
\* the delete of the original failed.  Session B has sent nothing.
InitSessions ==
    LET empty == UserData(<<>>, <<>>)
        r     == add_media(empty, FirstPhoto, 2, [i \in 1..2 |-> i = 1])
    IN  /\ store = [s \in Sessions |->
                      IF s = "A"
                      THEN Session(r.ud, {<<FirstPhoto.message_id, "media">>},
                                   Copied(r.calls))
                      ELSE Session(empty, {}, {})]
        /\ session = "A"
        /\ collect = Idle
        /\ media_messages = r.ud.media_messages
        /\ caption_message = r.ud.caption_message
        /\ userMsgs = {<<FirstPhoto.message_id, "media">>}
        /\ botMsgs = Copied(r.calls)
        /\ nextId = 3
        /\ budget = SessNew
        /\ handler = "add_media"
        /\ update = FirstPhoto
        /\ calls = r.calls
        /\ raised = r.raised
        /\ pre = empty
        /\ ingested = <<>>
        /\ removed = {}
        /\ edited = FALSE
        /\ retryOf = <<>>

NextSessions ==
    \/ SessionStart
    \/ SessionCollect
    \/ SessionReset
    \/ SessionAddMedia
    \/ SessionAddDescription
    \/ SessionUpdateMessage
    \/ SessionDeleteMedia
    \/ SessionUnhandled

SpecSessions == InitSessions /\ [][NextSessions]_vars

\* ------------------- SpecSteps: cmd_collect suspended at its outbound calls
\* cmd_collect runs from await to await; while it waits for the grouped send
\* or for the batch delete, the other handlers of the session may run, each
\* to completion.  A second /collect is not begun while one is suspended.
\* collect.interleaved says whether a handler ran during the last collect.

\* cmd_collect up to its first await: the item list is read, validated and the
\* caption merged; out of range it replies and returns.
CollectBegin ==
    /\ collect.pc = "idle"
    /\ \E upd \in Commands :
          /\ Dispatch(upd) = "cmd_collect"
          /\ LET media == Items(media_messages)
             IN  IF ~InBounds(Len(media))
                 THEN /\ \E o \in Outcomes(1) :
                            Run("cmd_collect", upd, cmd_collect(UD, upd, o))
                      /\ collect' = Idle
                 ELSE /\ collect' =
                            [pc |-> "reply_media_group", update |-> upd,
                             group |-> MergeCaption(media, caption_message),
                             ids |-> <<>>, interleaved |-> FALSE]
                      /\ UNCHANGED <<media_messages, caption_message, userMsgs,
                                     botMsgs, nextId, budget, handler, update,
                                     calls, raised, pre, ingested, removed,
                                     edited, retryOf>>
    /\ UNCHANGED <<store, session>>

\* reply_media_group returned: on failure the handler logs and returns; on
\* success _clear_album_data reads the ids to delete and awaits the delete.
CollectSent ==
    /\ collect.pc = "reply_media_group"
    /\ \E ok \in BOOLEAN :
          IF ok
          THEN /\ collect' = [collect EXCEPT !.pc = "delete_messages",
                                             !.ids = ClearIds(UD)]
               /\ UNCHANGED <<media_messages, caption_message, userMsgs,
                              botMsgs, nextId, budget, handler, update, calls,
                              raised, pre, ingested, removed, edited, retryOf>>
          ELSE /\ Run("cmd_collect", collect.update,
                      Result(UD, <<Call("reply_media_group", FALSE, <<>>,
                                        collect.group)>>, FALSE))
               /\ collect' = [collect EXCEPT !.pc = "idle"]
    /\ UNCHANGED <<store, session>>

\* delete_messages returned, with or without error: the user data is cleared.
CollectCleared ==
    /\ collect.pc = "delete_messages"
    /\ \E ok \in BOOLEAN :
          Run("cmd_collect", collect.update,
              Result(UserData_clear(UD),
                     <<Call("reply_media_group", TRUE, <<>>, collect.group),
                       Call("delete_messages", ok, collect.ids, <<>>)>>,
                     FALSE))
    /\ collect' = [collect EXCEPT !.pc = "idle"]
    /\ UNCHANGED <<store, session>>

\* Another handler of the session, run to completion.
StepsRouted(h, upd) ==
    /\ Dispatch(upd) = h
    /\ \E o \in Outcomes(NCalls(h)) : Run(h, upd, Invoke(h, UD, upd, o))
    /\ collect' = [collect EXCEPT !.interleaved = @ \/ collect.pc # "idle"]
    /\ UNCHANGED <<store, session>>

StepsStart ==
    \E upd \in Commands : upd.utype = "message" /\ StepsRouted("cmd_start", upd)

StepsReset ==
    \E upd \in Commands : upd.utype = "message" /\ StepsRouted("cmd_reset", upd)

StepsAddMedia ==
    \E upd \in NewUpdates \cup Edits : StepsRouted("add_media", upd)

StepsAddDescription ==
    \E upd \in NewUpdates \cup Edits : StepsRouted("add_description", upd)

StepsUpdateMessage == \E upd \in Edits : StepsRouted("update_message", upd)

StepsDeleteMedia == \E upd \in Presses : StepsRouted("delete_media", upd)

StepsUnhandled == \E upd \in NewUpdates : StepsRouted("none", upd)

InitSteps == InitWith(MIN_MEDIA_LENGTH, StepsNew)

NextSteps ==
    \/ CollectBegin
    \/ CollectSent
    \/ CollectCleared
    \/ StepsStart
    \/ StepsReset
    \/ StepsAddMedia
    \/ StepsAddDescription
    \/ StepsUpdateMessage
    \/ StepsDeleteMedia
    \/ StepsUnhandled

SpecSteps == InitSteps /\ [][NextSteps]_vars

\* ================================================================= claims
Ops(cs) == [i \in 1..Len(cs) |-> cs[i].op]

PreLen == Len(pre.media_messages)

PreIds == SeqSet(MessageIds(pre.media_messages))

PreInRange == MIN_MEDIA_LENGTH <= PreLen /\ PreLen <= MAX_MEDIA_LENGTH

Unchanged == UD = pre

GroupSent == handler = "cmd_collect" /\ Sent(calls, "reply_media_group") # {}

\* C1: cmd_collect on an album below MIN_MEDIA_LENGTH or above
\* MAX_MEDIA_LENGTH sends the validation text and nothing else (no grouped
\* message, no delete) and leaves the album and the caption as they were; on
\* an album within the limits whose grouped send succeeds it leaves the album
\* empty and the caption absent.
C1_CollectValidation ==
    handler = "cmd_collect" =>
        /\ ~PreInRange => /\ Ops(calls) = <<"reply_text">>
                          /\ Unchanged
        /\ (PreInRange /\ calls[1].ok) => /\ media_messages = <<>>
                                          /\ caption_message = <<>>

C1_Witness ==
    /\ handler = "cmd_collect"
    /\ PreLen > MAX_MEDIA_LENGTH
    /\ Ops(calls) = <<"reply_text">>

\* C2: when cmd_collect sends the grouped message of an album with a stored
\* caption, the first entry carries the stored caption text and no other
\* entry carries a caption.
C2_CaptionOnFirstOnly ==
    (GroupSent /\ pre.caption_message # <<>>) =>
        LET group == calls[1].media
        IN  /\ group[1].caption = pre.caption_message[1].caption
            /\ \A i \in 2..Len(group) : group[i].caption = None

\* C3: no transport error escapes a handler.
C3_NeverPropagated == ~raised

\* C4: an edited media or text message whose id is neither a stored item's
\* nor the stored caption's changes nothing and causes no outbound call.
C4_UntrackedEditIgnored ==
    ( /\ update.utype = "edited"
      /\ update.kind \in {"photo", "video", "text"}
      /\ update.message_id \notin PreIds
      /\ \A i \in 1..Len(pre.caption_message) :
            pre.caption_message[i].message_id # update.message_id )
    => (Unchanged /\ calls = <<>>)

\* C5: the album is the sequence of ingested items, in submission order,
\* without the entries removed by the delete button.
Kept(e) == e.message_id \notin removed

C5_OrderPreserved ==
    ~edited => media_messages = SelectSeq(ingested, Kept)

C5_Witness ==
    /\ handler = "add_media"
    /\ Len(media_messages) >= 2
    /\ Len(media_messages) < Len(ingested)
    /\ Len(media_messages) > PreLen

\* C6: a collect that passes validation and whose grouped send succeeds emits
\* one grouped message with the stored items in album order (the first one
\* carrying the stored caption), then one batch delete of exactly the stored
\* items' message ids and the caption's, and leaves the album empty whether or
\* not the batch delete succeeded.
C6_CollectSequence ==
    (GroupSent /\ calls[1].ok) =>
        LET group == calls[1].media
            cap   == pre.caption_message
        IN  /\ Ops(calls) = <<"reply_media_group", "delete_messages">>
            /\ Len(group) = PreLen
            /\ \A i \in 1..PreLen :
                  /\ group[i].type = pre.media_messages[i].item.type
                  /\ group[i].media = pre.media_messages[i].item.media
                  /\ (i > 1 \/ cap = <<>>) => group[i] = pre.media_messages[i].item
            /\ SeqSet(calls[2].ids) =
                  PreIds \cup {cap[i].message_id : i \in 1..Len(cap)}
            /\ Len(calls[2].ids) = PreLen + Len(cap)
            /\ media_messages = <<>>
            /\ caption_message = <<>>

C6_Witness ==
    /\ GroupSent
    /\ Ops(calls) = <<"reply_media_group", "delete_messages">>
    /\ ~calls[2].ok
    /\ pre.caption_message # <<>>
    /\ media_messages = <<>>

\* C7: a collect that passes validation and whose grouped send fails issues
\* no delete and leaves the album and the caption as they were; a collect
\* that directly follows it sends the grouped message the failed one tried.
C7_FailedCollectRetryable ==
    /\ (GroupSent /\ ~calls[1].ok) =>
          /\ Ops(calls) = <<"reply_media_group">>
          /\ Unchanged
    /\ (handler = "cmd_collect" /\ retryOf # <<>>) =>
          /\ GroupSent
          /\ calls[1].media = retryOf[1]

C7_Witness ==
    /\ GroupSent
    /\ retryOf # <<>>
    /\ calls[1].ok
    /\ pre.caption_message # <<>>

\* C8: add_media appends an item exactly when the copy succeeded, under the
\* copy's message id and not the inbound one's; the inbound message's delete
\* is issued only after that, and its failure keeps the item; a message with
\* neither photo nor video gets the prompt only and changes nothing.
C8_AddMediaRecords ==
    handler = "add_media" =>
        /\ caption_message = pre.caption_message
        /\ update.kind \notin {"photo", "video"} =>
              /\ Ops(calls) = <<"reply_text">>
              /\ Unchanged
        /\ update.kind \in {"photo", "video"} =>
              IF calls[1].ok
              THEN /\ Ops(calls) = <<"copy", "delete">>
                   /\ calls[2].ids = <<update.message_id>>
                   /\ calls[1].ids[1] # update.message_id
                   /\ media_messages =
                        Append(pre.media_messages,
                               MediaItem(InputMedia(update.kind, update.media,
                                                    update.caption),
                                         calls[1].ids[1]))
              ELSE /\ Ops(calls) = <<"copy">>
                   /\ Unchanged

C8_Witness ==
    /\ handler = "add_media"
    /\ Ops(calls) = <<"copy", "delete">>
    /\ ~calls[2].ok
    /\ Len(media_messages) = PreLen + 1
    /\ PreLen > 0

\* C9: after delete_media handled a press on message m no item with id m is
\* stored, at most one item went, the others keep their order, the caption is
\* untouched, and a press on an untracked message changes nothing.
Others(e) == e.message_id # update.message_id

C9_DeleteButtonRemoves ==
    handler = "delete_media" =>
        /\ update.message_id \notin SeqSet(MessageIds(media_messages))
        /\ Len(media_messages) >= PreLen - 1
        /\ media_messages = SelectSeq(pre.media_messages, Others)
        /\ caption_message = pre.caption_message
        /\ update.message_id \notin PreIds => Unchanged

\* C10: at most one caption is stored, and after add_description handled a
\* text message it is that message's text and id; the album is untouched and
\* no outbound call is made.
C10_LatestCaption ==
    /\ Len(caption_message) <= 1
    /\ (handler = "add_description" /\ update.kind = "text") =>
          /\ caption_message = <<CaptionItem(update.text, update.message_id)>>
          /\ media_messages = pre.media_messages
          /\ calls = <<>>

C10_Witness ==
    /\ handler = "add_description"
    /\ update.utype = "message"
    /\ pre.caption_message # <<>>
    /\ pre.caption_message[1].caption # update.text
    /\ pre.caption_message[1].message_id # update.message_id

\* C11: cmd_reset, whatever the album size and with or without a caption,
\* issues one batch delete of all tracked message ids, then the completion
\* reply, and leaves the album empty and the caption absent whether or not the
\* batch delete succeeded.
C11_ResetFlow ==
    handler = "cmd_reset" =>
        LET cap == pre.caption_message
        IN  /\ Ops(calls) = <<"delete_messages", "reply_text">>
            /\ calls[1].ids =
                  MessageIds(pre.media_messages)
                    \o [i \in 1..Len(cap) |-> cap[i].message_id]
            /\ media_messages = <<>>
            /\ caption_message = <<>>

C11_Witness ==
    /\ handler = "cmd_reset"
    /\ ~calls[1].ok
    /\ PreLen > 0
    /\ ~PreInRange
    /\ pre.caption_message # <<>>
    /\ media_messages = <<>>

\* C12: update_message on an edited photo or video replaces the stored item of
\* the entry with the message's id and nothing else: ids, positions, length,
\* the other entries and the caption stay; on an edited text it replaces the
\* caption text only when the id is the stored caption's, and never the
\* caption's message id.
C12_InPlaceEdit ==
    handler = "update_message" =>
        LET old   == pre.media_messages
            media == update.kind \in {"photo", "video"}
            cap   == pre.caption_message
        IN  /\ calls = <<>>
            /\ Len(media_messages) = Len(old)
            /\ \A i \in 1..Len(old) :
                  /\ media_messages[i].message_id = old[i].message_id
                  /\ media_messages[i].item =
                        IF media /\ old[i].message_id = update.message_id
                        THEN InputMedia(update.kind, update.media, update.caption)
                        ELSE old[i].item
            /\ Len(caption_message) = Len(cap)
            /\ \A i \in 1..Len(cap) :
                  /\ caption_message[i].message_id = cap[i].message_id
                  /\ caption_message[i].caption =
                        IF update.kind = "text"
                           /\ cap[i].message_id = update.message_id
                        THEN update.text
                        ELSE cap[i].caption

C12_Witness ==
    /\ handler = "update_message"
    /\ update.kind = "video"
    /\ PreLen = 3
    /\ update.message_id = pre.media_messages[2].message_id
    /\ media_messages[2].item # pre.media_messages[2].item
    /\ pre.caption_message # <<>>

\* C14: cmd_start leaves the album empty and the caption absent from every
\* state, also when the greeting fails, and that failure does not escape.
C14_StartFlow ==
    handler = "cmd_start" =>
        /\ media_messages = <<>>
        /\ caption_message = <<>>
        /\ Ops(calls) = <<"reply_text">>
        /\ ~raised

C14_Witness ==
    /\ handler = "cmd_start"
    /\ ~calls[1].ok
    /\ PreLen > 0
    /\ pre.caption_message # <<>>
    /\ media_messages = <<>>

\* C13: add_media whose echo succeeded makes the album exactly one longer from
\* every state, also at and above MAX_MEDIA_LENGTH; the length is looked at by
\* cmd_collect only, which sends the group exactly when the length is in
\* range; and a button press that removes a tracked item makes the album
\* exactly one shorter, so an over-full album can be brought back into range.
C13_NoCapOnInsert ==
    /\ handler = "add_media" /\ Copied(calls) # {} =>
          Len(media_messages) = PreLen + 1
    /\ handler = "delete_media" /\ ~raised /\ update.message_id \in PreIds =>
          Len(media_messages) = PreLen - 1
    /\ handler = "cmd_collect" => (GroupSent <=> PreInRange)

\* An album above the maximum took one more item.
C13_Witness ==
    /\ handler = "add_media"
    /\ PreLen > MAX_MEDIA_LENGTH
    /\ Len(media_messages) = PreLen + 1

\* An album above the maximum was brought to the maximum by one button press
\* and the collect was accepted.
C13_BackInRange ==
    /\ handler = "cmd_collect"
    /\ GroupSent
    /\ PreLen = MAX_MEDIA_LENGTH
    /\ removed # {}
    /\ Len(ingested) > MAX_MEDIA_LENGTH

\* C18: after every handler each stored item's id is the id of an echoed
\* message that is still in the chat; a handler that deleted a message leaves
\* no item with that id, and only delete_media, cmd_collect and cmd_reset
\* delete messages whose ids the album held.
C18_NoDanglingMedia ==
    /\ SeqSet(MessageIds(media_messages)) \subseteq botMsgs
    /\ Deleted(calls) \cap SeqSet(MessageIds(media_messages)) = {}
    /\ Deleted(calls) \cap PreIds # {} =>
          handler \in {"delete_media", "cmd_collect", "cmd_reset"}

C18_Witness ==
    /\ handler = "delete_media"
    /\ update.message_id \in PreIds
    /\ update.message_id \in Deleted(calls)
    /\ media_messages # <<>>

\* Ids a session tracks, ids the calls of a handler asked to delete, and the
\* files of the grouped messages it sent.
TrackedIds(ud) ==
    SeqSet(MessageIds(ud.media_messages))
        \cup {ud.caption_message[i].message_id :
                i \in 1..Len(ud.caption_message)}

DeleteIds(cs) ==
    UNION {SeqSet(cs[i].ids) : i \in {j \in 1..Len(cs) :
              cs[j].op \in {"delete", "delete_messages"}}}

GroupFiles(cs) ==
    UNION {{cs[i].media[k].media : k \in 1..Len(cs[i].media)} :
              i \in Sent(cs, "reply_media_group")}

FilesOf(ud) ==
    {ud.media_messages[i].item.media : i \in 1..Len(ud.media_messages)}

Foreign(s) == UNION {TrackedIds(store[t].ud) : t \in Sessions \ {s}}

\* C15 as stated: handling an update of one session changes no other
\* session's album or caption, and every message id it asks to delete is an
\* id the session tracked.  add_media deletes the inbound original, which is
\* never tracked, so this fails.
C15_OnlyTrackedIds ==
    [][/\ \A t \in Sessions \ {session'} : store'[t].ud = store[t].ud
       /\ DeleteIds(calls') \subseteq TrackedIds(pre')]_vars

\* C15, amended: handling an update of one session changes no other session's
\* album, caption or chat; every message id it asks to delete is an id the
\* session tracked or the id of the update's own message, and none is tracked
\* by another session; a grouped message it sends holds files of the
\* session's own items only.
C15_SessionIsolation ==
    [][/\ \A t \in Sessions \ {session'} : store'[t] = store[t]
       /\ store'[session'].ud = UD'
       /\ pre' = store[session'].ud
       /\ DeleteIds(calls') \subseteq TrackedIds(pre') \cup {update'.message_id}
       /\ DeleteIds(calls') \cap Foreign(session') = {}
       /\ GroupFiles(calls') \subseteq FilesOf(pre')]_vars

\* Session B reset its album, which deleted its own echo, while session A
\* holds an item.
C15_Witness ==
    /\ session = "B"
    /\ handler = "cmd_reset"
    /\ Deleted(calls) # {}
    /\ Deleted(calls) \subseteq TrackedIds(pre)
    /\ store["A"].ud.media_messages # <<>>
    /\ store["B"].ud.media_messages = <<>>

\* C17: with a fresh id for every inbound and every echoed message, no two
\* items of a session's album have the same message id and the caption's
\* message id is the id of no item.
UniqueIds(ud) ==
    LET ids == MessageIds(ud.media_messages)
    IN  /\ \A i, j \in 1..Len(ids) : ids[i] = ids[j] => i = j
        /\ \A k \in 1..Len(ud.caption_message) :
              ud.caption_message[k].message_id \notin SeqSet(ids)

C17_UniqueTrackedIds ==
    /\ UniqueIds(UD)
    /\ \A s \in Sessions : UniqueIds(store[s].ud)

\* The user edited a photo whose original stayed in the chat: it was ingested
\* a second time, under the id of its second echo.
C17_Witness ==
    /\ handler = "add_media"
    /\ update.utype = "edited"
    /\ Len(media_messages) = 2
    /\ media_messages[1].message_id # media_messages[2].message_id
    /\ update.message_id \notin SeqSet(MessageIds(media_messages))

\* A cmd_collect whose grouped send succeeded has just returned; pre is the
\* user data its clear emptied.
Collected ==
    /\ handler = "cmd_collect"
    /\ collect.pc = "idle"
    /\ Ops(calls) = <<"reply_media_group", "delete_messages">>
    /\ calls[1].ok

Emitted(e) ==
    \E k \in 1..Len(calls[1].media) :
        /\ calls[1].media[k].type = e.item.type
        /\ calls[1].media[k].media = e.item.media

C16_Lost ==
    /\ Collected
    /\ collect.interleaved
    /\ \E i \in 1..PreLen :
          /\ ~Emitted(pre.media_messages[i])
          /\ pre.media_messages[i].message_id \in Deleted(calls)

====
